---- MODULE Spec2Model ----
(***************************************************************************)
(* Model of src/printer/iterm.rs: the iTerm inline-image printer of viuer. *)
(*                                                                         *)
(* Bytes are integers 0..255; everything written to stdout is a sequence   *)
(* of bytes.  A render call (print / print_from_file) is one action: the   *)
(* program is single threaded and a call runs to its return.  Each call is *)
(* computed by composing the operators below in the order of the source,   *)
(* and leaves a record of what it did in `last`.                           *)
(***************************************************************************)
EXTENDS Integers, Sequences, FiniteSets

VARIABLES
    stream,         \* every byte written to stdout so far, in order
    flushed,        \* how many bytes of `stream` have been flushed through
    calls,          \* number of render calls made
    last,           \* record of the latest render call (<<>> before the first)
    lastPrint,      \* <<>> or <<r>>: latest successful print
    lastFile,       \* <<>> or <<r>>: latest successful print_from_file
    TERM_PROGRAM,   \* the environment variable: <<>> unset, <<v>> set to v
    ITERM_SUPPORT,  \* the lazy static: <<>> uninitialised, <<b>> initialised
    envReads,       \* how many times the environment has been read
    checked,        \* <<>> or <<[env, result]>>: the run of check_iterm_support
    firstAnswer,    \* <<>> or <<b>>: what the first is_iterm_supported returned
    lastAnswer      \* <<>> or <<[value, env]>>: what the latest is_iterm_supported
                    \* returned, and TERM_PROGRAM as it was at that call

renderVars == <<stream, flushed, calls, last, lastPrint, lastFile>>
probeVars  == <<TERM_PROGRAM, ITERM_SUPPORT, envReads, checked, firstAnswer, lastAnswer>>
vars == <<stream, flushed, calls, last, lastPrint, lastFile,
          TERM_PROGRAM, ITERM_SUPPORT, envReads, checked, firstAnswer, lastAnswer>>

\* Number of render calls explored in one behaviour.
MaxCalls == 2

None == <<>>
Some(v) == <<v>>

----------------------------------------------------------------------------
(* Formatting helpers of the standard library, as they compute.            *)

RECURSIVE Display(_)
\* format!("{}", n) of an unsigned integer: its decimal digits.
Display(n) ==
    IF n < 10 THEN <<48 + n>>
    ELSE Display(n \div 10) \o <<48 + (n % 10)>>

\* The base64 standard alphabet: A-Z a-z 0-9 + /
B64Char(i) ==
    IF i < 26 THEN 65 + i
    ELSE IF i < 52 THEN 97 + (i - 26)
    ELSE IF i < 62 THEN 48 + (i - 52)
    ELSE IF i = 62 THEN 43
    ELSE 47

RECURSIVE base64_encode(_)
\* base64::encode: standard alphabet, '=' padding.
base64_encode(b) ==
    IF Len(b) = 0 THEN <<>>
    ELSE IF Len(b) = 1 THEN
        <<B64Char(b[1] \div 4), B64Char((b[1] % 4) * 16), 61, 61>>
    ELSE IF Len(b) = 2 THEN
        <<B64Char(b[1] \div 4),
          B64Char((b[1] % 4) * 16 + (b[2] \div 16)),
          B64Char((b[2] % 16) * 4), 61>>
    ELSE
        <<B64Char(b[1] \div 4),
          B64Char((b[1] % 4) * 16 + (b[2] \div 16)),
          B64Char((b[2] % 16) * 4 + (b[3] \div 64)),
          B64Char(b[3] % 64)>>
        \o base64_encode(SubSeq(b, 4, Len(b)))

----------------------------------------------------------------------------
(* Images, files and configurations the calls are made with.               *)

Img(w, h, px) == [w |-> w, h |-> h, px |-> px]
NoImage == Img(0, 0, <<>>)

ImgA == Img(1, 1, <<200>>)
ImgB == Img(2, 1, <<255, 0>>)
ImgD == Img(0, 1, <<>>)          \* degenerate: zero width
Images == {ImgA, ImgB, ImgD}

\* PngEncoder::encode into a Vec: signature, dimensions, pixel data.
PngBytes(img) == <<137, 80, 78, 71, img.w, img.h>> \o img.px

\* The outcome of the encoder call: the encoder's own failure is an input.
PngEncodeSwallowed(img, fault) == [ok |-> TRUE, bytes |-> IF fault = "encode" THEN <<>> ELSE PngBytes(img)]
PngEncode(img, fault) ==
    IF fault = "encode" THEN [ok |-> FALSE, bytes |-> <<>>]
    ELSE [ok |-> TRUE, bytes |-> PngBytes(img)]

\* image::load_from_memory: guesses the format from the leading bytes.
load_from_memory(b) ==
    IF Len(b) >= 6 /\ SubSeq(b, 1, 4) = <<137, 80, 78, 71>>
       /\ Len(b) = 6 + b[5] * b[6]
    THEN [ok |-> TRUE, img |-> Img(b[5], b[6], SubSeq(b, 7, Len(b)))]
    ELSE IF Len(b) >= 4 /\ SubSeq(b, 1, 2) = <<66, 77>>
            /\ Len(b) = 4 + b[3] * b[4]
    THEN [ok |-> TRUE, img |-> Img(b[3], b[4], SubSeq(b, 5, Len(b)))]
    ELSE [ok |-> FALSE, img |-> NoImage]

\* The file system the calls see.
FileNames == {"missing.png", "somedir", "notes.txt", "a.png", "b.bmp"}
FileSystem(name) ==
    CASE name = "missing.png" -> [exists |-> FALSE, readable |-> FALSE, content |-> <<>>]
      [] name = "somedir"     -> [exists |-> TRUE,  readable |-> FALSE, content |-> <<>>]
      [] name = "notes.txt"   -> [exists |-> TRUE,  readable |-> TRUE,  content |-> <<104, 105>>]
      [] name = "a.png"       -> [exists |-> TRUE,  readable |-> TRUE,  content |-> PngBytes(ImgA)]
      [] name = "b.bmp"       -> [exists |-> TRUE,  readable |-> TRUE,  content |-> <<66, 77, 2, 1, 255, 0>>]

Cfg(w, h, x, y) == [width |-> w, height |-> h, x |-> x, y |-> y]
Configs == { Cfg(None, None, 0, 0),
             Cfg(Some(40), Some(20), 0, 0),
             Cfg(Some(40), None, 2, 1),
             Cfg(None, Some(7), 0, 2) }

\* Which fallible step fails if the call reaches it.
PrintFaults == {"none", "encode", "offset", "write", "flush"}
FileFaults  == {"none", "offset", "write", "flush"}

----------------------------------------------------------------------------
(* stdout: writes append to the stream, flush pushes everything through.   *)

Out(s, f) == [stream |-> s, flushed |-> f]

write_all(out, bytes, failing) ==
    IF failing THEN [ok |-> FALSE, out |-> out]
    ELSE [ok |-> TRUE, out |-> Out(out.stream \o bytes, out.flushed)]

FlushForgotten(out, failing) == [ok |-> ~failing, out |-> out]
stdout_flush(out, failing) ==
    IF failing THEN [ok |-> FALSE, out |-> out]
    ELSE [ok |-> TRUE, out |-> Out(out.stream, Len(out.stream))]

----------------------------------------------------------------------------
(* crate::printer helpers used by print_buffer.  adjust_offset and         *)
(* find_best_fit are defined in the parent module, outside iterm.rs; they  *)
(* follow their description in the design: OffsetAdjuster (4.3) and        *)
(* DimensionFitter (4.2).                                                  *)

RECURSIVE Newlines(_)
Newlines(n) == IF n = 0 THEN <<>> ELSE <<10>> \o Newlines(n - 1)

\* The cursor movement for the configured offset; nothing for (0, 0).
OffsetBytes(cfg) ==
    Newlines(cfg.y)
    \o (IF cfg.x > 0 THEN <<27, 91>> \o Display(cfg.x) \o <<67>> ELSE <<>>)

adjust_offset(out, cfg, fault) ==
    IF OffsetBytes(cfg) = <<>> THEN [ok |-> TRUE, out |-> out]
    ELSE write_all(out, OffsetBytes(cfg), fault = "offset")

\* The terminal's size in cells.
TermCols == 80
TermRows == 24

Max(a, b) == IF a >= b THEN a ELSE b

\* The cell size to render at; a cell is twice as tall as it is wide.
\* Zero native width or height is the fitter's invalid-image failure.  The
\* caller binds the result as a plain pair (line 62), so that failure ends
\* the call there and is not one of print_buffer's own `?` returns.
find_best_fit(img, width, height) ==
    IF img.w = 0 \/ img.h = 0 THEN [ok |-> FALSE, dims |-> <<0, 0>>]
    ELSE IF width # None /\ height # None THEN
        [ok |-> TRUE, dims |-> <<width[1], height[1]>>]
    ELSE IF width # None THEN
        [ok |-> TRUE, dims |-> <<width[1], Max(1, (width[1] * img.h) \div (2 * img.w))>>]
    ELSE IF height # None THEN
        [ok |-> TRUE, dims |-> <<Max(1, (height[1] * 2 * img.w) \div img.h), height[1]>>]
    ELSE IF img.w <= TermCols /\ img.h <= 2 * TermRows THEN
        [ok |-> TRUE, dims |-> <<img.w, Max(1, (img.h + 1) \div 2)>>]
    ELSE
        [ok |-> TRUE, dims |-> <<TermCols, Max(1, (TermCols * img.h) \div (2 * img.w))>>]

----------------------------------------------------------------------------
(* print_buffer and the two entry points.                                  *)

\* "\x1b]1337;File=inline=1;preserveAspectRatio=1;size="
SeqIntro == <<27, 93, 49, 51, 51, 55, 59, 70, 105, 108, 101, 61,
              105, 110, 108, 105, 110, 101, 61, 49, 59,
              112, 114, 101, 115, 101, 114, 118, 101, 65, 115, 112, 101, 99,
              116, 82, 97, 116, 105, 111, 61, 49, 59,
              115, 105, 122, 101, 61>>
WidthKey  == <<119, 105, 100, 116, 104, 61>>           \* "width="
HeightKey == <<104, 101, 105, 103, 104, 116, 61>>      \* "height="
Semi  == 59
Colon == 58
BEL   == 7
LF    == 10

WStrAlways(width) == WidthKey \o Display(IF width = None THEN 0 ELSE width[1]) \o <<Semi>>
w_str(width) ==
    IF width # None THEN WidthKey \o Display(width[1]) \o <<Semi>>
    ELSE <<>>

h_str(height) ==
    IF height # None THEN HeightKey \o Display(height[1]) \o <<Semi>>
    ELSE <<>>

\* The format string of the writeln! with its four arguments.
FormatSizeOfEncoded(img_content, ws, hs) ==
    SeqIntro \o Display(Len(base64_encode(img_content))) \o <<Semi>> \o ws \o hs
    \o <<Colon>> \o base64_encode(img_content) \o <<BEL>>
FormatSequence(img_content, ws, hs) ==
    SeqIntro \o Display(Len(img_content)) \o <<Semi>> \o ws \o hs
    \o <<Colon>> \o base64_encode(img_content) \o <<BEL>>

\* writeln! appends a newline to what the format string produces.
WriteNoNewline(line) == line
Writeln(line) == line \o <<LF>>

\* What a call leaves behind.
Done(out, steps, ok, err, dims, content) ==
    [out |-> out, steps |-> steps, ok |-> ok, err |-> err, dims |-> dims,
     content |-> content]

print_buffer(out, pre, img, img_content, cfg, fault) ==
    LET o1 == adjust_offset(out, cfg, fault)
        s1 == pre \o <<"adjust_offset">>
    IN
    IF ~o1.ok THEN Done(o1.out, s1, FALSE, "Io", <<0, 0>>, img_content)
    ELSE
    LET fit == find_best_fit(img, cfg.width, cfg.height)
        s2  == s1 \o <<"find_best_fit">>
    IN
    IF ~fit.ok THEN Done(o1.out, s2, FALSE, "InvalidImage", <<0, 0>>, img_content)
    ELSE
    LET line == Writeln(FormatSequence(img_content, w_str(cfg.width), h_str(cfg.height)))
        o2 == write_all(o1.out, line, fault = "write")
        s3 == s2 \o <<"writeln">>
    IN
    IF ~o2.ok THEN Done(o2.out, s3, FALSE, "Io", <<0, 0>>, img_content)
    ELSE
    LET o3 == stdout_flush(o2.out, fault = "flush")
        s4 == s3 \o <<"flush">>
    IN
    IF ~o3.ok THEN Done(o3.out, s4, FALSE, "Io", <<0, 0>>, img_content)
    ELSE Done(o3.out, s4, TRUE, "none", fit.dims, img_content)

PrintOffsetFirst(out, img, cfg, fault) ==
    LET o1 == adjust_offset(out, cfg, fault)
        enc == PngEncode(img, fault)
    IN
    IF ~enc.ok THEN Done(o1.out, <<"encode">>, FALSE, "Encode", <<0, 0>>, <<>>)
    ELSE print_buffer(out, <<"encode">>, img, enc.bytes, cfg, fault)
\* print: re-encode the image as PNG, then print_buffer.
print(out, img, cfg, fault) ==
    LET enc == PngEncode(img, fault) IN
    IF ~enc.ok THEN Done(out, <<"encode">>, FALSE, "Encode", <<0, 0>>, <<>>)
    ELSE print_buffer(out, <<"encode">>, img, enc.bytes, cfg, fault)

\* The bytes print_from_file hands to print_buffer.
FileTransportReencoded(file_content, img) == PngBytes(img)
FileTransport(file_content, img) == file_content

print_from_file(out, filename, cfg, fault) ==
    LET f == FileSystem(filename) IN
    IF ~f.exists THEN Done(out, <<"open">>, FALSE, "Io", <<0, 0>>, <<>>)
    ELSE IF ~f.readable THEN Done(out, <<"open", "read">>, FALSE, "Io", <<0, 0>>, <<>>)
    ELSE
    LET dec == load_from_memory(f.content) IN
    IF ~dec.ok THEN Done(out, <<"open", "read", "decode">>, FALSE, "Decode", <<0, 0>>, <<>>)
    ELSE print_buffer(out, <<"open", "read", "decode">>, dec.img,
                      FileTransport(f.content, dec.img), cfg, fault)

----------------------------------------------------------------------------
(* The capability probe.                                                   *)

\* A value of the environment is a sequence of units: characters, or the
\* unit Invalid standing for data that is not valid Unicode.
Invalid == "\\xFF"

EnvValues == { <<>>,
               <<"i", "T", "e", "r", "m">>,
               <<"i", "T", "e", "r", "m", ".", "a", "p", "p">>,
               <<"M", "y", "i", "T", "e", "r", "m">>,
               <<"i", "t", "e", "r", "m">>,
               <<"I", "T", "E", "R", "M">>,
               <<"i", "T", "e", "r">>,
               <<"i", "T", "e", "x", "r", "m">>,
               <<"v", "s", "c", "o", "d", "e">>,
               <<"i", "T", "e", "r", "m", Invalid>> }

\* std::env::var: Err when the variable is unset or is not valid Unicode.
env_var(env) ==
    IF env = None THEN [ok |-> FALSE, val |-> <<>>]
    ELSE IF \E i \in 1..Len(env[1]) : env[1][i] = Invalid THEN [ok |-> FALSE, val |-> <<>>]
    ELSE [ok |-> TRUE, val |-> env[1]]

RECURSIVE FindFrom(_, _, _)
\* Scan for the needle from position i on.
FindFrom(hay, needle, i) ==
    IF i + Len(needle) - 1 > Len(hay) THEN FALSE
    ELSE IF SubSeq(hay, i, i + Len(needle) - 1) = needle THEN TRUE
    ELSE FindFrom(hay, needle, i + 1)

StartsWithOnly(hay, needle) ==
    Len(needle) <= Len(hay) /\ SubSeq(hay, 1, Len(needle)) = needle
\* str::contains
str_contains(hay, needle) == FindFrom(hay, needle, 1)

check_iterm_support(env) ==
    LET term == env_var(env) IN
    IF term.ok THEN
        IF str_contains(term.val, <<"i", "T", "e", "r", "m">>) THEN TRUE ELSE FALSE
    ELSE FALSE

\* Dereferencing the lazy static: it runs its initialiser the first time only.
LazyRecomputed(cache, env) == [cache |-> Some(check_iterm_support(env)), read |-> TRUE]
LazyDeref(cache, env) ==
    IF cache = None THEN [cache |-> Some(check_iterm_support(env)), read |-> TRUE]
    ELSE [cache |-> cache, read |-> FALSE]

----------------------------------------------------------------------------
(* The state machine.                                                      *)

Init ==
    /\ stream = <<>>
    /\ flushed = 0
    /\ calls = 0
    /\ last = <<>>
    /\ lastPrint = <<>>
    /\ lastFile = <<>>
    /\ TERM_PROGRAM = None
    /\ ITERM_SUPPORT = None
    /\ envReads = 0
    /\ checked = <<>>
    /\ firstAnswer = <<>>
    /\ lastAnswer = <<>>

CallRecord(entry, img, file, cfg, fault, r) ==
    [entry |-> entry, img |-> img, file |-> file, cfg |-> cfg, fault |-> fault,
     steps |-> r.steps, ok |-> r.ok, err |-> r.err, dims |-> r.dims,
     content |-> r.content, start |-> Len(stream), startFlushed |-> flushed]

Slot(img, file, cfg, r) ==
    [img |-> img, file |-> file, cfg |-> cfg, dims |-> r.dims, content |-> r.content,
     written |-> SubSeq(r.out.stream, Len(stream) + 1, Len(r.out.stream))]

CallPrint(img, cfg, fault) ==
    /\ calls < MaxCalls
    /\ LET r == print(Out(stream, flushed), img, cfg, fault) IN
        /\ stream' = r.out.stream
        /\ flushed' = r.out.flushed
        /\ last' = <<CallRecord("print", img, "", cfg, fault, r)>>
        /\ lastPrint' = IF r.ok THEN <<Slot(img, "", cfg, r)>> ELSE lastPrint
    /\ calls' = calls + 1
    /\ UNCHANGED lastFile
    /\ UNCHANGED probeVars

CallPrintFromFile(filename, cfg, fault) ==
    /\ calls < MaxCalls
    /\ LET r == print_from_file(Out(stream, flushed), filename, cfg, fault) IN
        /\ stream' = r.out.stream
        /\ flushed' = r.out.flushed
        /\ last' = <<CallRecord("print_from_file", NoImage, filename, cfg, fault, r)>>
        /\ lastFile' = IF r.ok THEN <<Slot(NoImage, filename, cfg, r)>> ELSE lastFile
    /\ calls' = calls + 1
    /\ UNCHANGED lastPrint
    /\ UNCHANGED probeVars

\* std::env::set_var / remove_var by the surrounding program.
SetVar(v) ==
    /\ TERM_PROGRAM # Some(v)
    /\ TERM_PROGRAM' = Some(v)
    /\ UNCHANGED <<ITERM_SUPPORT, envReads, checked, firstAnswer, lastAnswer>>
    /\ UNCHANGED renderVars

RemoveVar ==
    /\ TERM_PROGRAM # None
    /\ TERM_PROGRAM' = None
    /\ UNCHANGED <<ITERM_SUPPORT, envReads, checked, firstAnswer, lastAnswer>>
    /\ UNCHANGED renderVars

is_iterm_supported ==
    /\ LET d == LazyDeref(ITERM_SUPPORT, TERM_PROGRAM) IN
        /\ ITERM_SUPPORT' = d.cache
        /\ envReads' = IF d.read THEN envReads + 1 ELSE envReads
        /\ checked' = IF d.read
                      THEN <<[env |-> TERM_PROGRAM, result |-> d.cache[1]]>>
                      ELSE checked
        /\ firstAnswer' = IF firstAnswer = <<>> THEN d.cache ELSE firstAnswer
        /\ lastAnswer' = <<[value |-> d.cache[1], env |-> TERM_PROGRAM]>>
    /\ UNCHANGED TERM_PROGRAM
    /\ UNCHANGED renderVars

Next ==
    \/ \E img \in Images, cfg \in Configs, fault \in PrintFaults : CallPrint(img, cfg, fault)
    \/ \E f \in FileNames, cfg \in Configs, fault \in FileFaults : CallPrintFromFile(f, cfg, fault)

Spec == Init /\ [][Next]_vars

ProbeNext ==
    \/ \E v \in EnvValues : SetVar(v)
    \/ RemoveVar
    \/ is_iterm_supported

ProbeSpec == Init /\ [][ProbeNext]_vars

----------------------------------------------------------------------------
(* Reading an emitted sequence back: the grammar of the iTerm escape       *)
(* sequence, parsed independently of the operators that produce it.        *)

MatchAt(c, i, key) ==
    /\ i >= 1
    /\ i + Len(key) - 1 <= Len(c)
    /\ SubSeq(c, i, i + Len(key) - 1) = key

CountSub(c, key) == Cardinality({i \in 1..Len(c) : MatchAt(c, i, key)})

IsDigit(b) == b >= 48 /\ b <= 57

RECURSIVE DigitsEnd(_, _)
\* The first position from i on that holds no decimal digit.
DigitsEnd(c, i) ==
    IF i <= Len(c) /\ IsDigit(c[i]) THEN DigitsEnd(c, i + 1) ELSE i

RECURSIVE Number(_, _, _)
\* The value of the decimal digits c[i..j-1].
Number(c, i, j) ==
    IF j <= i THEN 0 ELSE Number(c, i, j - 1) * 10 + (c[j - 1] - 48)

RECURSIVE IndexOf(_, _, _)
\* The first position from i on that holds byte b, Len(c) + 1 if none.
IndexOf(c, i, b) ==
    IF i > Len(c) THEN Len(c) + 1
    ELSE IF c[i] = b THEN i
    ELSE IndexOf(c, i + 1, b)

\* An optional `key<digits>;` field at position i: [val, next].
OptField(c, i, key) ==
    IF MatchAt(c, i, key)
    THEN LET d == i + Len(key)
             e == DigitsEnd(c, d)
         IN IF e > d /\ MatchAt(c, e, <<59>>)
            THEN [ok |-> TRUE, val |-> <<Number(c, d, e)>>, next |-> e + 1]
            ELSE [ok |-> FALSE, val |-> <<>>, next |-> i]
    ELSE [ok |-> TRUE, val |-> <<>>, next |-> i]

NoParse == [ok |-> FALSE, size |-> 0, width |-> <<>>, height |-> <<>>,
            payload |-> <<>>, rest |-> <<>>]

\* ESC ] 1337 ; File = inline=1 ; preserveAspectRatio=1 ; size=<n> ;
\* [width=<n>;] [height=<n>;] : <payload> BEL <rest>
ParseSequence(c) ==
    LET intro == <<27, 93>> \o <<49, 51, 51, 55, 59>> \o <<70, 105, 108, 101, 61>>
                 \o <<105, 110, 108, 105, 110, 101, 61, 49, 59>>
                 \o <<112, 114, 101, 115, 101, 114, 118, 101, 65, 115, 112, 101, 99,
                      116, 82, 97, 116, 105, 111, 61, 49, 59>>
                 \o <<115, 105, 122, 101, 61>>
    IN
    IF ~MatchAt(c, 1, intro) THEN NoParse
    ELSE
    LET d == Len(intro) + 1
        e == DigitsEnd(c, d)
    IN
    IF ~(e > d /\ MatchAt(c, e, <<59>>)) THEN NoParse
    ELSE
    LET w == OptField(c, e + 1, <<119, 105, 100, 116, 104, 61>>)
        h == OptField(c, w.next, <<104, 101, 105, 103, 104, 116, 61>>)
    IN
    IF ~(w.ok /\ h.ok /\ MatchAt(c, h.next, <<58>>)) THEN NoParse
    ELSE
    LET bel == IndexOf(c, h.next + 1, 7) IN
    IF bel > Len(c) THEN NoParse
    ELSE [ok |-> TRUE, size |-> Number(c, d, e), width |-> w.val, height |-> h.val,
          payload |-> SubSeq(c, h.next + 1, bel - 1),
          rest |-> SubSeq(c, bel + 1, Len(c))]

\* The value of a base64 character.
B64Val(ch) ==
    IF ch >= 65 /\ ch <= 90 THEN ch - 65
    ELSE IF ch >= 97 /\ ch <= 122 THEN ch - 71
    ELSE IF ch >= 48 /\ ch <= 57 THEN ch + 4
    ELSE IF ch = 43 THEN 62
    ELSE 63

RECURSIVE Base64Decode(_)
\* The bytes a padded base64 text stands for.
Base64Decode(t) ==
    IF Len(t) < 4 THEN <<>>
    ELSE
    LET a == B64Val(t[1])
        b == B64Val(t[2])
        c == B64Val(t[3])
        d == B64Val(t[4])
        rest == Base64Decode(SubSeq(t, 5, Len(t)))
    IN
    IF t[3] = 61 THEN <<a * 4 + (b \div 16)>>
    ELSE IF t[4] = 61 THEN <<a * 4 + (b \div 16), (b % 16) * 16 + (c \div 4)>>
    ELSE <<a * 4 + (b \div 16), (b % 16) * 16 + (c \div 4), (c % 4) * 64 + d>> \o rest

\* What the latest call wrote.
Written == SubSeq(stream, last[1].start + 1, Len(stream))

\* The part of a call's bytes from the ESC ] that opens the sequence.
FromIntro(c) ==
    LET at == {i \in 1..Len(c) : MatchAt(c, i, <<27, 93>>)} IN
    IF at = {} THEN <<>>
    ELSE SubSeq(c, CHOOSE i \in at : \A j \in at : i <= j, Len(c))

Returned == last # <<>>
ReturnedOk == last # <<>> /\ last[1].ok

----------------------------------------------------------------------------
(* The claims.                                                             *)

\* C1: the emitted sequence holds a `width=<N>;` field exactly when
\* config.width is Some(N) and a `height=<N>;` field exactly when
\* config.height is Some(N), with the requested values, in the fixed order
\* inline, preserveAspectRatio, size, width, height, ':' payload; no other
\* width= or height= appears anywhere in what the call wrote.
C1_SizeDirectives ==
    ReturnedOk =>
        LET p == ParseSequence(FromIntro(Written)) IN
        /\ p.ok
        /\ p.width = last[1].cfg.width
        /\ p.height = last[1].cfg.height
        /\ CountSub(Written, <<119, 105, 100, 116, 104, 61>>)
             = (IF last[1].cfg.width = None THEN 0 ELSE 1)
        /\ CountSub(Written, <<104, 101, 105, 103, 104, 116, 61>>)
             = (IF last[1].cfg.height = None THEN 0 ELSE 1)

\* C1 witness: both entry points' cases happen: neither directive requested,
\* and width=40 with height=20 requested for the two-pixel-wide image.
C1_Witness ==
    /\ ReturnedOk
    /\ last[1].cfg.width = Some(40)
    /\ last[1].cfg.height = Some(20)
    /\ last[1].img = ImgB
    /\ lastFile # <<>>
    /\ lastFile[1].cfg.width = None
    /\ lastFile[1].cfg.height = None

\* C2: the number in size= is the byte length of the transport payload
\* before base64 encoding, and the data after ':' decodes to those bytes:
\* the PNG re-encoding for print, the file's bytes for print_from_file.
C2_SizeIsPayloadLength ==
    ReturnedOk =>
        LET p == ParseSequence(FromIntro(Written))
            transport == IF last[1].entry = "print" THEN PngBytes(last[1].img)
                         ELSE FileSystem(last[1].file).content
        IN
        /\ p.ok
        /\ p.size = Len(transport)
        /\ Base64Decode(p.payload) = transport
        /\ Len(p.payload) # Len(transport)

\* C2 witness: a file whose length is a multiple of three (no padding) has
\* been sent after an image whose PNG is not (padding).
C2_Witness ==
    /\ ReturnedOk
    /\ last[1].entry = "print_from_file"
    /\ Len(last[1].content) % 3 = 0
    /\ lastPrint # <<>>
    /\ Len(lastPrint[1].content) % 3 = 2

\* C3: a render call that returns Ok has appended to the bytes already on
\* the stream first the offset bytes, then one whole escape sequence and
\* its line end, has then flushed, and leaves nothing pending; so the
\* sequences of successive calls follow one another without interleaving.
C3_OffsetPayloadFlush ==
    [][ (calls' = calls + 1 /\ last'[1].ok) =>
          LET new  == SubSeq(stream', Len(stream) + 1, Len(stream'))
              off  == OffsetBytes(last'[1].cfg)
              body == SubSeq(new, Len(off) + 1, Len(new))
              n    == Len(last'[1].steps)
          IN
          /\ SubSeq(stream', 1, Len(stream)) = stream
          /\ MatchAt(new, 1, off)
          /\ ParseSequence(body).ok
          /\ CountSub(new, <<27, 93>>) = 1
          /\ CountSub(new, <<7>>) = 1
          /\ n >= 4
          /\ SubSeq(last'[1].steps, n - 3, n)
               = <<"adjust_offset", "find_best_fit", "writeln", "flush">>
          /\ flushed' = Len(stream')
      ]_vars

\* C3 witness: a second call with a non-zero offset has returned Ok after a
\* first one left its own sequence on the stream.
C3_Witness ==
    /\ ReturnedOk
    /\ calls = 2
    /\ last[1].cfg.x > 0
    /\ last[1].cfg.y > 0
    /\ CountSub(stream, <<27, 93>>) = 2
    /\ flushed = Len(stream)

\* C4 (as claimed): with no width/height and no offsets, what a successful
\* call wrote begins with ESC ]1337;File=inline=1;preserveAspectRatio=1;
\* size=<L>;: with L the payload's byte length, and its last byte is BEL.
C4_EndsWithBel ==
    (/\ ReturnedOk
     /\ last[1].cfg = Cfg(None, None, 0, 0)) =>
        LET p == ParseSequence(Written) IN
        /\ p.ok
        /\ p.width = None /\ p.height = None
        /\ p.size = Len(last[1].content)
        /\ Written[Len(Written)] = 7

\* C4 (amended): the same beginning; the escape sequence ends with the one
\* BEL byte, and the last byte written is the newline that follows it.
C4_BelThenNewline ==
    (/\ ReturnedOk
     /\ last[1].cfg = Cfg(None, None, 0, 0)) =>
        LET p == ParseSequence(Written) IN
        /\ p.ok
        /\ p.width = None /\ p.height = None
        /\ p.size = Len(last[1].content)
        /\ p.rest = <<10>>
        /\ Written[Len(Written) - 1] = 7
        /\ Written[Len(Written)] = 10

\* C4 witness: the one-pixel image printed with the empty configuration.
C4_Witness ==
    /\ ReturnedOk
    /\ last[1].entry = "print"
    /\ last[1].img = ImgA
    /\ last[1].cfg = Cfg(None, None, 0, 0)
    /\ Len(Written) > 0

\* The steps of an entry point in the order of its source.
StepOrder(entry) ==
    IF entry = "print"
    THEN <<"encode", "adjust_offset", "find_best_fit", "writeln", "flush">>
    ELSE <<"open", "read", "decode", "adjust_offset", "find_best_fit", "writeln", "flush">>

\* Whether a step of the call recorded in c fails when it is run.
StepFails(c, step) ==
    CASE step = "encode"        -> c.fault = "encode"
      [] step = "open"          -> c.file = "missing.png"
      [] step = "read"          -> c.file = "somedir"
      [] step = "decode"        -> c.file = "notes.txt"
      [] step = "adjust_offset" -> c.fault = "offset" /\ (c.cfg.x > 0 \/ c.cfg.y > 0)
      [] step = "find_best_fit" -> c.entry = "print" /\ (c.img.w = 0 \/ c.img.h = 0)
      [] step = "writeln"       -> c.fault = "write"
      [] step = "flush"         -> c.fault = "flush"

\* C5: the first step that fails ends the call with Err: the steps run are
\* exactly those up to and including it, each once, and Ok is returned
\* only when every step, the flush included, succeeded.
C5_FailureEndsCall ==
    Returned =>
        LET c == last[1]
            order == StepOrder(c.entry)
            failing == {i \in 1..Len(order) : StepFails(c, order[i])}
        IN
        IF failing = {}
        THEN c.ok /\ c.steps = order /\ flushed = Len(stream)
        ELSE /\ ~c.ok
             /\ c.err # "none"
             /\ c.steps = SubSeq(order, 1, CHOOSE i \in failing : \A j \in failing : i <= j)

\* C5 witness: a flush error ended the second call, a print_from_file, after
\* its sequence was written; no print has succeeded.
C5_Witness ==
    /\ Returned
    /\ calls = 2
    /\ last[1].entry = "print_from_file"
    /\ last[1].fault = "flush"
    /\ ~last[1].ok
    /\ flushed < Len(stream)
    /\ lastPrint = <<>>

\* C6 (as claimed): an image of zero width or height makes the call fail
\* with the invalid-image error before any byte is written.
C6_DegenerateFailsBeforeWriting ==
    (/\ Returned
     /\ last[1].entry = "print"
     /\ last[1].fault = "none"
     /\ (last[1].img.w = 0 \/ last[1].img.h = 0)) =>
        /\ ~last[1].ok
        /\ last[1].err = "InvalidImage"
        /\ Len(stream) = last[1].start

\* C9: print sends the PNG re-encoding of the image and print_from_file the
\* file's bytes verbatim; when the two were called with equal transport
\* bytes and equal configuration they wrote the same bytes and returned the
\* same dimensions.
C9_EntryPointsConverge ==
    /\ lastPrint # <<>> =>
         Base64Decode(ParseSequence(FromIntro(lastPrint[1].written)).payload)
           = PngBytes(lastPrint[1].img)
    /\ lastFile # <<>> =>
         Base64Decode(ParseSequence(FromIntro(lastFile[1].written)).payload)
           = FileSystem(lastFile[1].file).content
    /\ (/\ lastPrint # <<>>
        /\ lastFile # <<>>
        /\ lastPrint[1].content = lastFile[1].content
        /\ lastPrint[1].cfg = lastFile[1].cfg) =>
           /\ lastPrint[1].written = lastFile[1].written
           /\ lastPrint[1].dims = lastFile[1].dims

\* C9 witness: the one-pixel image and the file holding its PNG were both
\* rendered with the same configuration, one that sets an offset.
C9_Witness ==
    /\ lastPrint # <<>>
    /\ lastFile # <<>>
    /\ lastPrint[1].content = lastFile[1].content
    /\ lastPrint[1].cfg = lastFile[1].cfg
    /\ lastPrint[1].cfg.x > 0

\* C10: a call that failed before print_buffer was entered (opening,
\* reading or decoding the file, or encoding the PNG) wrote no byte and
\* flushed nothing.
C10_EarlyFailureWritesNothing ==
    (/\ Returned
     /\ ~last[1].ok
     /\ \A i \in 1..Len(last[1].steps) : last[1].steps[i] # "adjust_offset") =>
        /\ Len(stream) = last[1].start
        /\ flushed = last[1].startFlushed

\* C10 witness: the PNG encoder failed for a call whose configuration sets
\* an offset, after an earlier call had written to the stream.
C10_Witness ==
    /\ Returned
    /\ last[1].err = "Encode"
    /\ last[1].cfg.y > 0
    /\ last[1].start > 0

\* The units "iTerm" in order somewhere in the value.
HoldsITerm(v) ==
    \E i \in 1..Len(v) :
        /\ i + 4 <= Len(v)
        /\ v[i] = "i" /\ v[i + 1] = "T" /\ v[i + 2] = "e"
        /\ v[i + 3] = "r" /\ v[i + 4] = "m"

\* C7 (as claimed): check_iterm_support is true exactly when TERM_PROGRAM
\* is set and its value contains "iTerm".
C7_TrueIffContains ==
    checked # <<>> =>
        (checked[1].result <=>
            (checked[1].env # None /\ HoldsITerm(checked[1].env[1])))

\* C7 (amended): check_iterm_support is true exactly when TERM_PROGRAM is
\* set, its value is valid Unicode and it contains "iTerm"; it is false
\* when the variable is missing, empty, not valid Unicode or without the
\* substring.
C7_TrueIffUnicodeContains ==
    checked # <<>> =>
        (checked[1].result <=>
            (/\ checked[1].env # None
             /\ \A i \in 1..Len(checked[1].env[1]) : checked[1].env[1][i] # Invalid
             /\ HoldsITerm(checked[1].env[1])))

\* C7 witness: the check ran on a value that holds iTerm after a prefix.
C7_Witness ==
    /\ checked # <<>>
    /\ checked[1].env = Some(<<"M", "y", "i", "T", "e", "r", "m">>)
    /\ checked[1].result

\* C8: the environment is read at most once, and every is_iterm_supported
\* returns what the first one returned, whatever happened to TERM_PROGRAM
\* in between.
C8_Memoized ==
    /\ envReads <= 1
    /\ lastAnswer # <<>> =>
         /\ envReads = 1
         /\ Some(lastAnswer[1].value) = firstAnswer
         /\ lastAnswer[1].value = checked[1].result

\* C8 witness: a query made after TERM_PROGRAM was removed still answers
\* true, as the first one did when the variable held iTerm.app.
C8_Witness ==
    /\ lastAnswer # <<>>
    /\ lastAnswer[1].value
    /\ lastAnswer[1].env = None
    /\ checked # <<>>
    /\ checked[1].env = Some(<<"i", "T", "e", "r", "m", ".", "a", "p", "p">>)

====
